---- MODULE Spec2Model ----
(***************************************************************************)
(* NbTestAdapter (java.lsp.server/vscode/src/testAdapter.ts): the test     *)
(* tree kept in a vscode TestController, the run session (currentRun,      *)
(* itemsToRun) and the handlers run, set, testProgress and updateTests.    *)
(*                                                                         *)
(* TestItem objects live in a heap indexed by object references, so that   *)
(* reference identity (Set<TestItem>, Map<TestItem, ...>, the items the    *)
(* UI holds) is distinguishable from equality of ids.  Ids, names and      *)
(* labels are sequences of one-character strings, so that startsWith,      *)
(* indexOf, slice and trim are computed on them.                           *)
(***************************************************************************)
EXTENDS Integers, Sequences, FiniteSets, TLC

\* ------------------------------------------------------------------ bounds
MaxObj == 7      \* TestItem objects alive at the same time
MaxRuns == 2     \* activations of run() and TestRun handles alive at the same time

\* ------------------------------------------------------- values of the code
Undef == 0       \* `undefined` for object references and run handles
NoRange == 0     \* `undefined` for a range; a range is its start line
NoFile == ""     \* `undefined` / empty file: `suite.file ? Uri.parse(..) : undefined`

Obj == 1..MaxObj
RunId == 1..MaxRuns

VARIABLES
  items,        \* heap: Obj -> TestItem record (id = <<>> marks a free slot)
  roots,        \* testController.items: sequence of suite objects, insertion order
  currentRun,   \* this.currentRun: a TestRun handle or Undef
  itemsToRun,   \* this.itemsToRun: [def |-> BOOLEAN, s |-> sequence of objects]
  runs,         \* the activations of run(): RunId -> frame
  session       \* the TestRun handles: RunId -> what the UI was told

vars == <<items, roots, currentRun, itemsToRun, runs, session>>

\* --------------------------------------------------------------- sequences
Range(s) == {s[i] : i \in 1..Len(s)}

IndexOf(s, x) ==
  IF \E i \in 1..Len(s) : s[i] = x
  THEN CHOOSE i \in 1..Len(s) : s[i] = x /\ \A j \in 1..(i-1) : s[j] # x
  ELSE 0

\* String.prototype.startsWith
StartsWith(s, p) == Len(p) <= Len(s) /\ SubSeq(s, 1, Len(p)) = p

\* String.prototype.slice(n) for 0 <= n
Slice(s, n) == SubSeq(s, n + 1, Len(s))

RECURSIVE TrimLeft(_)
TrimLeft(s) == IF s # <<>> /\ Head(s) = " " THEN TrimLeft(Tail(s)) ELSE s

RECURSIVE TrimRight(_)
TrimRight(s) ==
  IF s # <<>> /\ s[Len(s)] = " " THEN TrimRight(SubSeq(s, 1, Len(s) - 1)) ELSE s

\* String.prototype.trim
Trim(s) == TrimRight(TrimLeft(s))

\* asRange of ./protocol: undefined stays undefined, a range is converted
AsRange(r) == IF r = NoRange THEN NoRange ELSE r

\* ------------------------------------------------------------------- heap
NoItem == [id |-> <<>>, label |-> <<>>, uri |-> NoFile, range |-> NoRange, children |-> <<>>]

IsFree(its, o) == its[o].id = <<>>

\* the reference the next createTestItem returns; Undef when the heap is full
Alloc(its) ==
  IF \E o \in Obj : IsFree(its, o)
  THEN CHOOSE o \in Obj : IsFree(its, o) /\ \A p \in Obj : IsFree(its, p) => o <= p
  ELSE Undef

\* testController.createTestItem(id, label, uri) stored at reference o
CreateItem(its, o, id, label, uri) ==
  [its EXCEPT ![o] = [id |-> id, label |-> label, uri |-> uri,
                      range |-> NoRange, children |-> <<>>]]

\* TestItemCollection.get(id) on a sequence of references
CollGet(its, coll, id) ==
  IF \E i \in 1..Len(coll) : its[coll[i]].id = id
  THEN coll[CHOOSE i \in 1..Len(coll) : its[coll[i]].id = id]
  ELSE Undef

\* TestItemCollection.add(item) for the item o with the id `id`: an item with
\* the same id is replaced in place
CollAdd(its, coll, o, id) ==
  IF \E i \in 1..Len(coll) : its[coll[i]].id = id
  THEN [coll EXCEPT ![CHOOSE i \in 1..Len(coll) : its[coll[i]].id = id] = o]
  ELSE Append(coll, o)

\* item.parent: the item whose children collection holds o
Parent(its, o) ==
  IF \E p \in Obj : ~IsFree(its, p) /\ o \in Range(its[p].children)
  THEN CHOOSE p \in Obj : ~IsFree(its, p) /\ o \in Range(its[p].children)
  ELSE Undef

RECURSIVE Reach(_, _)
Reach(its, S) ==
  LET T == S \cup UNION {Range(its[o].children) : o \in S}
  IN IF T = S THEN S ELSE Reach(its, T)

\* the items of the tree: the suites and everything below them
InTree(its, rts) == Reach(its, Range(rts))

RECURSIVE Walk(_, _)
\* the items below the collection coll, parents first, in the order of forEach
Walk(its, coll) ==
  IF coll = <<>> THEN <<>>
  ELSE <<Head(coll)>> \o Walk(its, its[Head(coll)].children) \o Walk(its, Tail(coll))

RECURSIVE Sorted(_)
Sorted(S) ==
  IF S = {} THEN <<>>
  ELSE LET m == CHOOSE x \in S : \A y \in S : x <= y
       IN <<m>> \o Sorted(S \ {m})

\* the objects something still refers to: the tree first, then what `keep`
\* (the references held outside the tree) reaches
LiveOrder(its, rts, keep) ==
  Walk(its, rts) \o Sorted(Reach(its, keep \ {Undef}) \ Range(Walk(its, rts)))

\* --------------------------------------------------------------- updateTests
\* the state of the loop over suite.tests: the heap, currentSuite (cs), the
\* array children and the map parentTests; ok is FALSE when the heap is full
Failed(st) == [st EXCEPT !.ok = FALSE]

\* variant: the range of a known test is updated during a run as well
KnownTestRanged(st, test, testExecution, currentTest, n) ==
  IF st.items[currentTest].uri # test.file
  THEN IF n = Undef THEN Failed(st)
       ELSE [st EXCEPT
               !.items = [CreateItem(@, n, test.id, test.name, test.file) EXCEPT
                            ![st.cs].children = CollAdd(st.items, @, n, test.id),
                            ![n].range = AsRange(test.range)],
               !.children = Append(@, n)]
  ELSE [st EXCEPT
          !.items[currentTest].range = IF AsRange(test.range) # NoRange
                                       THEN AsRange(test.range) ELSE @,
          !.children = Append(@, currentTest)]

\* lines 201-209: the test is a child of the suite already
KnownTest(st, test, testExecution, currentTest, n) ==
  IF st.items[currentTest].uri # test.file
  THEN IF n = Undef THEN Failed(st)
       ELSE [st EXCEPT
               !.items = [CreateItem(@, n, test.id, test.name, test.file) EXCEPT
                            ![st.cs].children = CollAdd(st.items, @, n, test.id),
                            ![n].range = IF ~testExecution /\ AsRange(test.range) # NoRange
                                         THEN AsRange(test.range) ELSE NoRange],
               !.children = Append(@, n)]
  ELSE [st EXCEPT
          !.items[currentTest].range = IF ~testExecution /\ AsRange(test.range) # NoRange
                                       THEN AsRange(test.range) ELSE @,
          !.children = Append(@, currentTest)]

\* lines 224-227: the label of a dynamic test below the parent labelled `parent`
DynamicLabel(name, parent) ==
  IF StartsWith(name, parent) THEN Trim(Slice(name, Len(parent))) ELSE name

\* lines 219-228: the test becomes a dynamic child of p, the k-th key of parentTests
Nest(st, test, p, k, n) ==
  IF n = Undef THEN Failed(st)
  ELSE [st EXCEPT
          !.items = CreateItem(@, n, test.id, DynamicLabel(test.name, @[p].label), NoFile),
          !.children = IF k = 0 THEN Append(@, p) ELSE @,
          !.parentTests = IF k = 0 THEN Append(@, [key |-> p, arr |-> <<n>>])
                          ELSE [@ EXCEPT ![k].arr = Append(@, n)]]

\* lines 212-218: the children of the suite whose id the id of the test starts with
Parents(its, cs, id) ==
  SelectSeq(its[cs].children, LAMBDA o : StartsWith(id, its[o].id))

\* variant: a test without a single parent is created under the suite
DynamicTestAttach(st, test, parents, n) ==
  IF Len(parents) # 1
  THEN IF n = Undef THEN Failed(st)
       ELSE [st EXCEPT
               !.items = [CreateItem(@, n, test.id, test.name, test.file) EXCEPT
                            ![st.cs].children = CollAdd(st.items, @, n, test.id)]]
  ELSE Nest(st, test, parents[1],
            IndexOf([i \in 1..Len(st.parentTests) |-> st.parentTests[i].key], parents[1]), n)

\* variant: a test with several parents is nested under the first of them
DynamicTestFirst(st, test, parents, n) ==
  IF Len(parents) = 0 THEN st
  ELSE Nest(st, test, parents[1],
            IndexOf([i \in 1..Len(st.parentTests) |-> st.parentTests[i].key], parents[1]), n)

\* lines 211-229
DynamicTest(st, test, parents, n) ==
  IF Len(parents) # 1 THEN st
  ELSE Nest(st, test, parents[1],
            IndexOf([i \in 1..Len(st.parentTests) |-> st.parentTests[i].key], parents[1]), n)

\* lines 231-234
NewTest(st, test, n) ==
  IF n = Undef THEN Failed(st)
  ELSE [st EXCEPT
          !.items = [CreateItem(@, n, test.id, test.name, test.file) EXCEPT
                       ![n].range = AsRange(test.range),
                       ![st.cs].children = CollAdd(st.items, @, n, test.id)],
          !.children = Append(@, n)]

\* lines 197-237, one iteration of suite.tests.forEach
UpsertTest(st, test, testExecution) ==
  IF ~st.ok THEN st
  ELSE IF CollGet(st.items, st.items[st.cs].children, test.id) # Undef
  THEN KnownTest(st, test, testExecution,
                 CollGet(st.items, st.items[st.cs].children, test.id), Alloc(st.items))
  ELSE IF testExecution
  THEN DynamicTest(st, test, Parents(st.items, st.cs, test.id), Alloc(st.items))
  ELSE NewTest(st, test, Alloc(st.items))

RECURSIVE UpsertTests(_, _, _)
UpsertTests(st, tests, testExecution) ==
  IF tests = <<>> THEN st
  ELSE UpsertTests(UpsertTest(st, Head(tests), testExecution), Tail(tests), testExecution)

\* lines 240-243: the parent `key` is replaced by a new item n holding `arr`
ReplaceParent(st, key, arr, n) ==
  IF n = Undef THEN Failed(st)
  ELSE [st EXCEPT
          !.items = [CreateItem(@, n, @[key].id, @[key].label, @[key].uri) EXCEPT
                       ![n].range = st.items[key].range,
                       ![n].children = arr,
                       ![st.cs].children = CollAdd(st.items, @, n, st.items[key].id)]]

\* lines 239-244: parentTests.forEach
RECURSIVE ReplaceParents(_, _)
ReplaceParents(st, pts) ==
  IF pts = <<>> \/ ~st.ok THEN st
  ELSE ReplaceParents(ReplaceParent(st, Head(pts).key, Head(pts).arr, Alloc(st.items)),
                      Tail(pts))

\* variant: discovery keeps the children the suite had
FinishKeep(st, testExecution) ==
  IF ~st.ok THEN st
  ELSE IF testExecution THEN ReplaceParents(st, st.parentTests)
  ELSE st

\* lines 238-247
Finish(st, testExecution) ==
  IF ~st.ok THEN st
  ELSE IF testExecution THEN ReplaceParents(st, st.parentTests)
  ELSE [st EXCEPT !.items[st.cs].children = st.children]

\* what updateTests leaves: [items, roots, ok]
Updated(st, rts) == [items |-> st.items, roots |-> rts, ok |-> st.ok]

\* lines 191-248 with currentSuite = cs
UpdateSuite(its, rts, cs, suite, testExecution) ==
  Updated(
    Finish(
      UpsertTests(
        [items |-> IF ~testExecution /\ AsRange(suite.range) # NoRange
                   THEN [its EXCEPT ![cs].range = AsRange(suite.range)] ELSE its,
         ok |-> TRUE, cs |-> cs, children |-> <<>>, parentTests |-> <<>>],
        IF suite.hasTests THEN suite.tests ELSE <<>>, testExecution),
      testExecution),
    rts)

\* lines 188-189: a new suite item n is created and registered
CreateSuite(its, rts, n, suite, testExecution) ==
  IF n = Undef THEN [items |-> its, roots |-> rts, ok |-> FALSE]
  ELSE UpdateSuite(CreateItem(its, n, suite.name, suite.name, suite.file),
                   CollAdd(its, rts, n, suite.name),
                   n, suite, testExecution)

\* lines 185-187: the suite is created when it is unknown or its file changed
Recreate(its, found, suite) ==
  found = Undef \/ (suite.file # NoFile /\ its[found].uri # suite.file)

\* updateTests(suite, testExecution) on the heap `its` and the controller's
\* items `rts`
UpdateTests(its, rts, suite, testExecution) ==
  IF Recreate(its, CollGet(its, rts, suite.name), suite)
  THEN CreateSuite(its, rts, Alloc(its), suite, testExecution)
  ELSE UpdateSuite(its, rts, CollGet(its, rts, suite.name), suite, testExecution)

\* ---------------------------------------------------------------------- set
States == {"enqueued", "started", "passed", "failed", "skipped", "errored"}
Terminal == {"passed", "failed", "skipped", "errored"}

NoPos == -1
NoLoc == [uri |-> NoFile, line |-> NoPos]

\* new Location(uri, position)
Location(uri, line) == [uri |-> uri, line |-> line]

\* new TestMessage(text); its location is assigned afterwards
TestMessage(text) == [text |-> text, location |-> NoLoc]

NoItemsToRun == [def |-> FALSE, s |-> <<>>]

\* a TestRun handle that does not exist; `last` is the state the UI shows for an
\* item, `enq` the items that were reported enqueued
NoSession == [status |-> "none", last |-> [o \in Obj |-> "none"], enq |-> {}]

Remove(s, x) == SelectSeq(s, LAMBDA y : y # x)

\* Set.prototype.add / delete behind `this.itemsToRun?.`
SetAdd(itr, x) ==
  IF ~itr.def \/ x \in Range(itr.s) THEN itr ELSE [itr EXCEPT !.s = Append(@, x)]

SetDelete(itr, x) == IF ~itr.def THEN itr ELSE [itr EXCEPT !.s = Remove(@, x)]

\* lines 82-98: the switch of set(); rs = [itemsToRun, session, out], cr = this.currentRun
Report(rs, cr, item, state, message) ==
     [itemsToRun |-> IF state = "enqueued" THEN SetAdd(rs.itemsToRun, item)
                     ELSE SetDelete(rs.itemsToRun, item),
      session |-> [rs.session EXCEPT
                     ![cr].last[item] = state,
                     ![cr].enq = IF state = "enqueued" THEN @ \cup {item} ELSE @],
      out |-> Append(rs.out, [run |-> cr, item |-> item, state |-> state,
                              msgs |-> IF state \notin {"failed", "errored"} THEN <<>>
                                       ELSE IF message = <<>> THEN <<TestMessage(<<>>)>>
                                       ELSE message])]

RECURSIVE Set(_, _, _, _, _, _, _)
RECURSIVE SetEach(_, _, _, _, _, _, _)

\* set(item, state, message, noPassDown); an undefined message is <<>>
Set(rs, its, cr, item, state, message, noPassDown) ==
  IF cr = Undef THEN rs
  ELSE IF noPassDown THEN Report(rs, cr, item, state, message)
  ELSE SetEach(Report(rs, cr, item, state, message),
               its, cr, its[item].children, state, message, noPassDown)

\* variant: the state is passed to the children and no further down
RECURSIVE SetEachOnce(_, _, _, _, _, _, _)
SetEachOnce(rs, its, cr, coll, state, message, noPassDown) ==
  IF coll = <<>> THEN rs
  ELSE SetEachOnce(IF cr = Undef THEN rs ELSE Report(rs, cr, Head(coll), state, message),
                   its, cr, Tail(coll), state, message, noPassDown)

\* coll.forEach(child => this.set(child, state, message, noPassDown))
SetEach(rs, its, cr, coll, state, message, noPassDown) ==
  IF coll = <<>> THEN rs
  ELSE SetEach(Set(rs, its, cr, Head(coll), state, message, noPassDown),
               its, cr, Tail(coll), state, message, noPassDown)

\* ------------------------------------------------------------- testProgress
\* path.basename(uri.path); a file is named by its base name
Basename(uri) == uri

\* lines 151-157: the line of the first frame `at ...(file:line)` of the file
\* with a truthy line number; 0 when there is none. A frame is
\* [at |-> it has that shape, file, line |-> parseInt, 0 when NaN]
FrameLine(frame, fileName) ==
  IF frame.at /\ frame.file = fileName THEN frame.line ELSE 0

FirstLine(hits, fileName) == IF hits = <<>> THEN 0 ELSE FrameLine(hits[1], fileName)

FindLine(stackTrace, fileName) ==
  FirstLine(SelectSeq(stackTrace, LAMBDA f : FrameLine(f, fileName) # 0), fileName)

\* lines 138-142: the first child whose id starts the id and that holds it
NestedTest(its, nested, id) ==
  IF nested = <<>> THEN Undef ELSE CollGet(its, its[nested[1]].children, id)

\* lines 136-143: the item a result is matched to
FindTest(its, currentSuite, id) ==
  IF CollGet(its, its[currentSuite].children, id) # Undef
  THEN CollGet(its, its[currentSuite].children, id)
  ELSE NestedTest(its, SelectSeq(its[currentSuite].children,
                                 LAMBDA o : StartsWith(id, its[o].id)
                                            /\ CollGet(its, its[o].children, id) # Undef), id)

\* line 148: currentTest.uri || currentTest.parent?.uri
TestUri(its, currentTest, par) ==
  IF its[currentTest].uri # NoFile THEN its[currentTest].uri
  ELSE IF par # Undef THEN its[par].uri ELSE NoFile

\* line 158: the position of the frame, else the start of the range of the test
Pos(line, range) ==
  IF line # 0 THEN line - 1 ELSE IF range # NoRange THEN range ELSE NoPos

\* lines 149-162
Located(m, testUri, pos) ==
  IF testUri # NoFile /\ pos # NoPos THEN [m EXCEPT !.location = Location(testUri, pos)] ELSE m

LocatedAt(its, currentTest, test, testUri) ==
  Located(TestMessage(test.stackTrace), testUri,
          Pos(FindLine(test.stackTrace, Basename(testUri)), its[currentTest].range))

\* lines 144-166: the message of a result: [msg, has, threw]
ResultMessage(its, currentSuite, currentTest, test) ==
  IF ~test.hasTrace THEN [msg |-> TestMessage(<<>>), has |-> FALSE, threw |-> FALSE]
  ELSE IF currentTest # Undef
  THEN [msg |-> LocatedAt(its, currentTest, test,
                          TestUri(its, currentTest, Parent(its, currentTest))),
        has |-> TRUE, threw |-> FALSE]
  \* currentSuite.range!.start: a TypeError when the suite has no range
  ELSE IF its[currentSuite].range = NoRange
  THEN [msg |-> TestMessage(test.stackTrace), has |-> TRUE, threw |-> TRUE]
  ELSE [msg |-> [TestMessage(test.stackTrace) EXCEPT
                   !.location = Location(its[currentSuite].uri, its[currentSuite].range)],
        has |-> TRUE, threw |-> FALSE]

\* lines 167-171; ps = [rs, suiteMessages, threw]
Outcome(ps, its, cr, currentTest, test, rm) ==
  IF rm.threw THEN [ps EXCEPT !.threw = TRUE]
  ELSE IF currentTest # Undef /\ test.state # "loaded"
  THEN [ps EXCEPT !.rs = Set(@, its, cr, currentTest, test.state,
                             IF rm.has THEN <<rm.msg>> ELSE <<>>, TRUE)]
  ELSE IF test.state # "passed" /\ rm.has
  THEN [ps EXCEPT !.suiteMessages = Append(@, rm.msg)]
  ELSE ps

Matched(ps, its, cr, currentSuite, currentTest, test) ==
  Outcome(ps, its, cr, currentTest, test, ResultMessage(its, currentSuite, currentTest, test))

\* lines 134-173, one iteration of suite.tests.forEach
ProgressTest(ps, its, cr, currentSuite, test) ==
  IF ps.threw \/ cr = Undef THEN ps
  ELSE Matched(ps, its, cr, currentSuite, FindTest(its, currentSuite, test.id), test)

RECURSIVE ProgressTests(_, _, _, _, _)
ProgressTests(ps, its, cr, currentSuite, tests) ==
  IF tests = <<>> THEN ps
  ELSE ProgressTests(ProgressTest(ps, its, cr, currentSuite, Head(tests)),
                     its, cr, currentSuite, Tail(tests))

\* lines 174-177
Rollup(ps, its, cr, currentSuite) ==
  IF ps.threw \/ ps.suiteMessages = <<>> THEN ps
  ELSE [ps EXCEPT !.rs = SetEach(Set(@, its, cr, currentSuite, "errored",
                                     ps.suiteMessages, TRUE),
                                 its, cr, its[currentSuite].children, "skipped", <<>>, FALSE)]

\* what testProgress leaves: [items, roots, ok, rs, threw]
Progressed(u, rs, threw) ==
  [items |-> u.items, roots |-> u.roots, ok |-> u.ok, rs |-> rs, threw |-> threw]

Reconciled(u, ps) == Progressed(u, ps.rs, ps.threw)

\* lines 132-178 after updateTests left u
Reconcile(u, cr, rs, currentSuite, suite) ==
  IF ~u.ok \/ currentSuite = Undef THEN Progressed(u, rs, FALSE)
  ELSE Reconciled(u, Rollup(ProgressTests([rs |-> rs, suiteMessages |-> <<>>, threw |-> FALSE],
                                          u.items, cr, currentSuite, suite.tests),
                            u.items, cr, currentSuite))

\* testProgress(suite); rs = [itemsToRun, session, out], cr = this.currentRun
Progress(its, rts, cr, rs, suite) ==
  IF suite.state = "loaded"
  THEN Progressed(UpdateTests(its, rts, suite, FALSE), rs, FALSE)
  ELSE IF suite.state = "started"
  THEN Progressed([items |-> its, roots |-> rts, ok |-> TRUE],
                  IF CollGet(its, rts, suite.name) # Undef
                  THEN Set(rs, its, cr, CollGet(its, rts, suite.name), "started", <<>>, FALSE)
                  ELSE rs,
                  FALSE)
  ELSE IF ~suite.hasTests
  THEN Progressed([items |-> its, roots |-> rts, ok |-> TRUE], rs, FALSE)
  ELSE Reconcile(UpdateTests(its, rts, suite, TRUE), cr, rs,
                 CollGet(its, rts, suite.name), suite)

\* ---------------------------------------------------------------------- run
\* workspace.workspaceFolders
WorkspaceFolders == <<"w1", "w2">>

NoSel == [def |-> FALSE, s |-> <<>>]

\* the frame of a run() that is not executing
NoFrame == [pc |-> "none", all |-> FALSE, include |-> <<>>, i |-> 0,
            debug |-> FALSE, cancelled |-> FALSE, calls |-> <<>>]

Finished == {"done", "threw", "rejected"}

\* variant: every pair is kept, a key may occur twice
MapPush(acc, e, k) == Append(acc, e)

\* new Map(pairs): a key keeps the place of its first entry and the value of its last
MapSet(acc, e, k) == IF k = 0 THEN Append(acc, e) ELSE [acc EXCEPT ![k] = e]

RECURSIVE MapOf(_, _)
MapOf(pairs, acc) ==
  IF pairs = <<>> THEN acc
  ELSE MapOf(Tail(pairs),
             MapSet(acc, Head(pairs), IndexOf([i \in 1..Len(acc) |-> acc[i].k], Head(pairs).k)))

\* line 58: the entry of an item: its parent when it has no file and the parent has one
Entry(its, item, par) ==
  IF its[item].uri = NoFile /\ par # Undef /\ its[par].uri # NoFile
  THEN [k |-> its[par].id, v |-> par]
  ELSE [k |-> its[item].id, v |-> item]

Values(m) == [i \in 1..Len(m) |-> m[i].v]

\* line 58: [...new Map(request.include.map(...)).values()]
Include(its, include) ==
  Values(MapOf([i \in 1..Len(include) |-> Entry(its, include[i], Parent(its, include[i]))],
               <<>>))

\* line 63: the selector is the id after its first ':'
Selector(id, idx) == IF idx = 0 THEN NoSel ELSE [def |-> TRUE, s |-> Slice(id, idx)]

\* line 63: the command issued for one item
SingleCommand(its, item, debug) ==
  [cmd |-> IF debug THEN "java.debug.single" ELSE "java.run.single",
   uri |-> its[item].uri,
   sel |-> Selector(its[item].id, IndexOf(its[item].id, ":"))]

\* line 70: the command issued for one workspace folder
TestCommand(folder, debug) ==
  [cmd |-> IF debug THEN "java.debug.test" ELSE "java.run.test", uri |-> folder, sel |-> NoSel]

\* lines 59-65 from include[fr.i] on, up to the next await: [fr, rs, await]
RECURSIVE RunInclude(_, _, _, _)
RunInclude(fr, rs, its, cr) ==
  IF fr.i > Len(fr.include) THEN [fr |-> fr, rs |-> rs, await |-> FALSE]
  ELSE IF its[fr.include[fr.i]].uri # NoFile
  THEN [fr |-> [fr EXCEPT !.calls = Append(@, SingleCommand(its, fr.include[fr.i], fr.debug))],
        rs |-> Set(rs, its, cr, fr.include[fr.i], "enqueued", <<>>, FALSE),
        await |-> TRUE]
  ELSE RunInclude([fr EXCEPT !.i = @ + 1], rs, its, cr)

\* lines 68-72 from workspace folder fr.i on, up to the next await
RECURSIVE RunFolders(_, _)
RunFolders(fr, rs) ==
  IF fr.i > Len(WorkspaceFolders) THEN [fr |-> fr, rs |-> rs, await |-> FALSE]
  ELSE IF ~fr.cancelled
  THEN [fr |-> [fr EXCEPT !.calls = Append(@, TestCommand(WorkspaceFolders[fr.i], fr.debug))],
        rs |-> rs, await |-> TRUE]
  ELSE RunFolders([fr EXCEPT !.i = @ + 1], rs)

\* line 74: Set.prototype.forEach visits the members in insertion order and
\* skips those that were deleted before their turn
RECURSIVE Sweep(_, _, _, _)
Sweep(rs, its, cr, todo) ==
  IF todo = <<>> THEN rs
  ELSE IF Head(todo) \in Range(rs.itemsToRun.s)
  THEN Sweep(Set(rs, its, cr, Head(todo), "skipped", <<>>, FALSE), its, cr, Tail(todo))
  ELSE Sweep(rs, its, cr, Tail(todo))

\* lines 75-77 after the sweep; reading end of undefined is a TypeError
End(swept, cr) ==
  IF cr = Undef
  THEN [rs |-> [swept EXCEPT !.itemsToRun = NoItemsToRun], cr |-> cr, pc |-> "threw"]
  ELSE [rs |-> [swept EXCEPT !.itemsToRun = NoItemsToRun, !.session[cr].status = "ended"],
        cr |-> Undef, pc |-> "done"]

\* lines 74-77: [rs, cr, pc]; reading forEach of undefined is a TypeError
CloseOut(rs, its, cr) ==
  IF ~rs.itemsToRun.def THEN [rs |-> rs, cr |-> cr, pc |-> "threw"]
  ELSE End(Sweep(rs, its, cr, rs.itemsToRun.s), cr)

Closed(fr, c) == [fr |-> [fr EXCEPT !.pc = c.pc], rs |-> c.rs, cr |-> c.cr]

\* the loop reached an await or its end (lines 74-77 follow): [fr, rs, cr]
Await(l, its, cr) ==
  IF l.await THEN [fr |-> [l.fr EXCEPT !.pc = "await"], rs |-> l.rs, cr |-> cr]
  ELSE Closed(l.fr, CloseOut(l.rs, its, cr))

\* run() from the loop position fr.i up to its next await or its end
RunOn(fr, rs, its, cr) ==
  Await(IF fr.all THEN RunFolders(fr, rs) ELSE RunInclude(fr, rs, its, cr), its, cr)

\* lines 55-56: createTestRun made the handle h
Created(rs, h) ==
  [rs EXCEPT !.itemsToRun = [def |-> TRUE, s |-> <<>>],
             !.session[h] = [NoSession EXCEPT !.status = "active"]]

\* lines 53-57 and on to the first await of a run() that created the handle h
RunStart(its, rts, rs, h, all, include, debug) ==
  RunOn([NoFrame EXCEPT !.all = all, !.debug = debug, !.i = 1,
                        !.include = IF all THEN <<>> ELSE Include(its, include)],
        IF all THEN SetEach(Created(rs, h), its, h, rts, "enqueued", <<>>, FALSE)
        ELSE Created(rs, h),
        its, h)

\* ------------------------------------------------------------------ actions
\* A run() that settled and a TestRun that ended are visible in the state their
\* last step produced and are gone in the next one.
Frames == [r \in RunId |-> IF runs[r].pc \in Finished THEN NoFrame ELSE runs[r]]

Sessions ==
  [h \in RunId |->
     IF session[h].status = "ended" THEN NoSession
     ELSE IF session[h].status = "active" /\ h # currentRun
     THEN [NoSession EXCEPT !.status = "active"]
     ELSE session[h]]

RunState == [itemsToRun |-> itemsToRun, session |-> Sessions, out |-> <<>>]

\* the references held outside the tree
Held(rs, frames) ==
  Range(rs.itemsToRun.s)
    \cup UNION {Range(frames[r].include) : r \in {q \in RunId : frames[q].pc = "await"}}

Renamed(order, seq) == [i \in 1..Len(seq) |-> IndexOf(order, seq[i])]

\* the next state; object references are renamed so that the heap holds the
\* objects still referred to, in the order `order`
CommitAs(order, its, rts, cr, rs, frames) ==
  /\ items' = [o \in Obj |->
                 IF o <= Len(order)
                 THEN [its[order[o]] EXCEPT !.children = Renamed(order, @)]
                 ELSE NoItem]
  /\ roots' = Renamed(order, rts)
  /\ currentRun' = cr
  /\ itemsToRun' = [rs.itemsToRun EXCEPT !.s = Renamed(order, @)]
  /\ session' = [h \in RunId |->
                   [status |-> rs.session[h].status,
                    last |-> [o \in Obj |-> IF o <= Len(order)
                                            THEN rs.session[h].last[order[o]]
                                            ELSE "none"],
                    enq |-> {IndexOf(order, o) : o \in rs.session[h].enq} \ {0}]]
  /\ runs' = [r \in RunId |-> [frames[r] EXCEPT !.include = Renamed(order, @)]]

Commit(its, rts, cr, rs, frames) ==
  CommitAs(LiveOrder(its, rts, Held(rs, frames)), its, rts, cr, rs, frames)

\* the handler returned p = [items, roots, ok, rs]
Handled(p) == p.ok /\ Commit(p.items, p.roots, currentRun, p.rs, Frames)

\* load(): updateTests(suite) for a suite the backend found in a workspace folder
Load(suite) ==
  Handled(Progressed(UpdateTests(items, roots, suite, FALSE), RunState, FALSE))

\* a progress notification of the backend
TestProgress(suite) == Handled(Progress(items, roots, currentRun, RunState, suite))

\* run() of activation r stopped at x = [fr, rs, cr]
Stopped(r, x) == Commit(items, roots, x.cr, x.rs, [Frames EXCEPT ![r] = x.fr])

\* the run handler of a profile is called; r is the activation, h the TestRun
Run(r, h, all, include, debug) ==
  /\ Frames[r].pc = "none"
  /\ \A q \in RunId : q < r => Frames[q].pc # "none"
  /\ Sessions[h].status = "none"
  /\ \A q \in RunId : q < h => Sessions[q].status # "none"
  /\ Stopped(r, RunStart(items, roots, RunState, h, all, include, debug))

\* the awaited command of run r resolves
BackendReturn(r) ==
  /\ runs[r].pc = "await"
  /\ Stopped(r, RunOn([runs[r] EXCEPT !.i = @ + 1], RunState, items, currentRun))

\* the awaited command of run r rejects: run() rejects at its await
BackendReject(r) ==
  /\ runs[r].pc = "await"
  /\ Commit(items, roots, currentRun, RunState, [Frames EXCEPT ![r].pc = "rejected"])

\* the token of run r is cancelled; cancel() stops the debug session
Cancel(r) ==
  /\ runs[r].pc = "await"
  /\ runs[r].all
  /\ ~runs[r].cancelled
  /\ Commit(items, roots, currentRun, RunState, [Frames EXCEPT ![r].cancelled = TRUE])

Init ==
  /\ items = [o \in Obj |-> NoItem]
  /\ roots = <<>>
  /\ currentRun = Undef
  /\ itemsToRun = NoItemsToRun
  /\ runs = [r \in RunId |-> NoFrame]
  /\ session = [r \in RunId |-> NoSession]

\* ------------------------------------------------------------------- inputs
SuiteName == <<"S">>
IdA == <<"S", ":", "a">>
IdAB == <<"S", ":", "a", "b">>
IdB == <<"S", ":", "b">>
IdAB1 == <<"S", ":", "a", "b", "1">>
SuiteFile == "S.java"
Trace == <<[at |-> TRUE, file |-> SuiteFile, line |-> 3]>>

\* a TestResult of the backend
Result(id, file, range, state, traced) ==
  [id |-> id, name |-> id, file |-> file, range |-> range, state |-> state,
   hasTrace |-> traced, stackTrace |-> IF traced THEN Trace ELSE <<>>]

\* a TestSuite of the backend
Suite(file, range, state, hasTests, tests) ==
  [name |-> SuiteName, file |-> file, range |-> range, state |-> state,
   hasTests |-> hasTests, tests |-> tests]

\* the lists of results with the ids in order `ids`, all with the same file
RECURSIVE Results(_, _, _)
Results(ids, file, state) ==
  IF ids = <<>> THEN <<>>
  ELSE <<Result(Head(ids), file, 1, state, FALSE)>> \o Results(Tail(ids), file, state)

\* the sequences without repetition of members of S
RECURSIVE SeqsOf(_)
SeqsOf(S) ==
  {<<>>} \cup UNION {{<<x>> \o t : t \in SeqsOf(S \ {x})} : x \in S}

\* the orders in which the tree specification reports tests
TreeLists == SeqsOf({IdA, IdAB, IdAB1})

\* discovery: the tests of a snapshot carry the same file, that of the suite or none
TreeLoaded ==
  {Suite(sf, 1, "loaded", TRUE, Results(ids, f, "loaded")) :
     ids \in TreeLists, sf \in {NoFile, SuiteFile}, f \in {NoFile, SuiteFile}}
    \cup {Suite(SuiteFile, 1, "loaded", FALSE, <<>>)}

\* results of a run
TreeCompleted ==
  {Suite(sf, 1, "completed", TRUE, Results(ids, f, "passed")) :
     ids \in TreeLists, sf \in {NoFile, SuiteFile}, f \in {NoFile, SuiteFile}}

NextTree ==
  \/ \E suite \in TreeLoaded : Load(suite)
  \/ \E suite \in TreeCompleted : TestProgress(suite)

SpecTree == Init /\ [][NextTree]_vars

\* ------------------------------------------------------ the run specification
MaxInclude == 2  \* items selected by one run request

\* discovery: the suite with or without a range and one test with its file
RunLoaded ==
  {Suite(SuiteFile, g, "loaded", TRUE, Results(ids, SuiteFile, "loaded")) :
     g \in {NoRange, 1}, ids \in {<<IdA>>}}

\* the state of a result and whether it carries a stack trace; a stack trace
\* matters on a result that failed or that the tree does not know
ResultKinds(id) ==
  {<<"passed", FALSE>>, <<"failed", TRUE>>}
    \cup (IF id = IdB THEN {<<"passed", TRUE>>} ELSE {})

RECURSIVE ResultLists(_)
ResultLists(ids) ==
  IF ids = <<>> THEN {<<>>}
  ELSE {<<Result(Head(ids), SuiteFile, 1, k[1], k[2])>> \o rest :
          k \in ResultKinds(Head(ids)), rest \in ResultLists(Tail(ids))}

\* progress of a run: the suite started, or completed with results
RunProgress ==
  {Suite(SuiteFile, 1, "started", FALSE, <<>>)}
    \cup {Suite(SuiteFile, 1, "completed", TRUE, t) :
            t \in ResultLists(<<IdA>>) \cup ResultLists(<<IdAB>>) \cup ResultLists(<<IdB>>)
                    \cup ResultLists(<<IdA, IdB>>)}

\* the selections of a run request: items of the tree, none twice
Selections ==
  {sel \in SeqsOf(InTree(items, roots)) : Len(sel) <= MaxInclude}

\* no run() is in flight
Idle == \A q \in RunId : Frames[q].pc = "none"

\* run requests arrive one at a time: the next one after run() has settled
NextRun ==
  \/ \E suite \in RunLoaded : Load(suite)
  \/ \E suite \in RunProgress : TestProgress(suite)
  \/ \E r, h \in RunId, debug \in BOOLEAN : Idle /\ Run(r, h, TRUE, <<>>, debug)
  \/ \E r, h \in RunId, debug \in BOOLEAN :
       \E sel \in Selections : Idle /\ Run(r, h, FALSE, sel, debug)
  \/ \E r \in RunId : BackendReturn(r)
  \/ \E r \in RunId : BackendReject(r)
  \/ \E r \in RunId : Cancel(r)

SpecRun == Init /\ [][NextRun]_vars

\* ------------------------------------------- overlapping run requests
OverlapLoaded == {Suite(SuiteFile, 1, "loaded", TRUE, Results(<<IdA>>, SuiteFile, "loaded"))}

OverlapProgress ==
  {Suite(SuiteFile, 1, "started", FALSE, <<>>),
   Suite(SuiteFile, 1, "completed", TRUE, Results(<<IdA>>, SuiteFile, "passed"))}

\* a run request may arrive while an earlier run() awaits the backend
NextOverlap ==
  \/ \E suite \in OverlapLoaded : Load(suite)
  \/ \E suite \in OverlapProgress : TestProgress(suite)
  \/ \E r, h \in RunId, debug \in BOOLEAN : Run(r, h, TRUE, <<>>, debug)
  \/ \E r, h \in RunId, debug \in BOOLEAN :
       \E o \in InTree(items, roots) : Run(r, h, FALSE, <<o>>, debug)
  \/ \E r \in RunId : BackendReturn(r)
  \/ \E r \in RunId : BackendReject(r)
  \/ \E r \in RunId : Cancel(r)

SpecOverlap == Init /\ [][NextOverlap]_vars

\* overlapping run requests whose commands all return
NextReturns ==
  \/ \E suite \in OverlapLoaded : Load(suite)
  \/ \E suite \in OverlapProgress : TestProgress(suite)
  \/ \E r, h \in RunId, debug \in BOOLEAN : Run(r, h, TRUE, <<>>, debug)
  \/ \E r, h \in RunId, debug \in BOOLEAN :
       \E o \in InTree(items, roots) : Run(r, h, FALSE, <<o>>, debug)
  \/ \E r \in RunId : BackendReturn(r)
  \/ \E r \in RunId : Cancel(r)

SpecReturns == Init /\ [][NextReturns]_vars

\* ------------------------------------------------- properties of updateTests
\* the suite item of a heap, its children and the ids of its children
SuiteOf(its, rts) == CollGet(its, rts, SuiteName)

Kids(its, rts) == IF SuiteOf(its, rts) = Undef THEN <<>> ELSE its[SuiteOf(its, rts)].children

KidIds(its, rts) == {its[o].id : o \in Range(Kids(its, rts))}

Kid(its, rts, id) == CollGet(its, Kids(its, rts), id)

\* the children of the suite whose id is a prefix of id
Prefixes(its, rts, id) == {o \in Range(Kids(its, rts)) : StartsWith(id, its[o].id)}

\* updateTests in during-run mode keeps the suite item
KeepsSuite(suite) ==
  SuiteOf(items, roots) # Undef /\ ~Recreate(items, SuiteOf(items, roots), suite)

\* the files of the snapshot are those of the items it names
SameFiles(suite) ==
  /\ KeepsSuite(suite)
  /\ items[SuiteOf(items, roots)].uri = suite.file
  /\ \A i \in 1..Len(suite.tests) :
       Kid(items, roots, suite.tests[i].id) # Undef
         => items[Kid(items, roots, suite.tests[i].id)].uri = suite.tests[i].file

Stable(suite, u) ==
  /\ SuiteOf(u.items, u.roots) = SuiteOf(items, roots)
  /\ \A id \in KidIds(items, roots) \cap KidIds(u.items, u.roots) :
       Kid(u.items, u.roots, id) = Kid(items, roots, id)

\* C4: an updateTests call, in discovery or during-run mode, in which no file
\* changes leaves under the suite name and under every test id that stays
\* registered the object that was registered before the call
C4_IdentityStable ==
  \A suite \in TreeLoaded \cup TreeCompleted :
    SameFiles(suite)
      => Stable(suite, UpdateTests(items, roots, suite, suite.state = "completed"))

NestedUnder(u, parentId, id) ==
  /\ Kid(u.items, u.roots, parentId) # Undef
  /\ CollGet(u.items, u.items[Kid(u.items, u.roots, parentId)].children, id) # Undef

\* C5: in during-run mode a reported test that is no child of its suite and
\* whose id starts with the id of exactly one child of the suite is, after
\* updateTests, a child of the suite's item with that id
C5_NestedUnderUniquePrefix ==
  \A suite \in TreeCompleted : \A i \in 1..Len(suite.tests) :
    ( /\ KeepsSuite(suite)
      /\ Kid(items, roots, suite.tests[i].id) = Undef
      /\ Cardinality(Prefixes(items, roots, suite.tests[i].id)) = 1
      /\ UpdateTests(items, roots, suite, TRUE).ok )
      => \A p \in Prefixes(items, roots, suite.tests[i].id) :
           NestedUnder(UpdateTests(items, roots, suite, TRUE), items[p].id, suite.tests[i].id)

\* the reported test has no child of its suite as a prefix of its id
Unparented(suite, i) ==
  /\ Prefixes(items, roots, suite.tests[i].id) = {}
  /\ UpdateTests(items, roots, suite, TRUE).ok

\* C6 as claimed: in during-run mode a reported test with no child of the suite
\* as a prefix of its id is, after updateTests, a direct child of the suite
C6_AttachedUnderSuite ==
  \A suite \in TreeCompleted : \A i \in 1..Len(suite.tests) :
    (KeepsSuite(suite) /\ Unparented(suite, i))
      => Kid(UpdateTests(items, roots, suite, TRUE).items,
             UpdateTests(items, roots, suite, TRUE).roots, suite.tests[i].id) # Undef

Absent(u, id) ==
  \A o \in InTree(u.items, u.roots) : u.items[o].id # id

\* C6 amended: in during-run mode a reported test with no child of the suite as
\* a prefix of its id is not attached: after updateTests no item of the tree
\* has its id
C6_UnparentedNotAttached ==
  \A suite \in TreeCompleted : \A i \in 1..Len(suite.tests) :
    (KeepsSuite(suite) /\ Unparented(suite, i))
      => Absent(UpdateTests(items, roots, suite, TRUE), suite.tests[i].id)

\* a state in which a result is unparented under a suite that has children
C6_Witness ==
  \E suite \in TreeCompleted : \E i \in 1..Len(suite.tests) :
    /\ KeepsSuite(suite) /\ Unparented(suite, i)
    /\ Kids(items, roots) # <<>>
    /\ Absent(UpdateTests(items, roots, suite, TRUE), suite.tests[i].id)

Ambiguous(suite, i) ==
  /\ KeepsSuite(suite)
  /\ Kid(items, roots, suite.tests[i].id) = Undef
  /\ Cardinality(Prefixes(items, roots, suite.tests[i].id)) >= 2
  /\ UpdateTests(items, roots, suite, TRUE).ok

\* C7 as claimed: in during-run mode a reported test whose id starts with the
\* ids of two or more children of the suite is under none of them after
\* updateTests
C7_NoChildUnderMatches ==
  \A suite \in TreeCompleted : \A i \in 1..Len(suite.tests) :
    Ambiguous(suite, i)
      => \A p \in Prefixes(items, roots, suite.tests[i].id) :
           ~NestedUnder(UpdateTests(items, roots, suite, TRUE), items[p].id, suite.tests[i].id)

\* the child with the id under the suite's item parentId after the call was the
\* child with that id of that item before the call
NotNestedBy(u, parentId, id) ==
  NestedUnder(u, parentId, id)
    => /\ ~IsFree(items, CollGet(u.items, u.items[Kid(u.items, u.roots, parentId)].children, id))
       /\ CollGet(u.items, u.items[Kid(u.items, u.roots, parentId)].children, id)
            = CollGet(items, items[Kid(items, roots, parentId)].children, id)

\* C7 amended: updateTests does not nest such a test: it creates no item for
\* it, so a matched item has a child with the reported id after the call only
\* if it had that same child before the call
C7_AmbiguousNotNested ==
  \A suite \in TreeCompleted : \A i \in 1..Len(suite.tests) :
    Ambiguous(suite, i)
      => \A p \in Prefixes(items, roots, suite.tests[i].id) :
           NotNestedBy(UpdateTests(items, roots, suite, TRUE), items[p].id, suite.tests[i].id)

\* a state with two children whose ids start the id of a reportable test
C7_Witness ==
  \E suite \in TreeCompleted : \E i \in 1..Len(suite.tests) :
    /\ Ambiguous(suite, i)
    /\ \A p \in Prefixes(items, roots, suite.tests[i].id) :
         NotNestedBy(UpdateTests(items, roots, suite, TRUE), items[p].id, suite.tests[i].id)

\* ------------------------------------------------------- properties of run
\* C1: when run() has completed, every item that was reported enqueued in its
\* session has a terminal state as its last reported state
C1_EnqueuedEndTerminal ==
  \A h \in RunId :
    session[h].status = "ended"
      => \A o \in session[h].enq : session[h].last[o] \in Terminal

\* C2: when the awaited command rejects, the session is still closed out: the
\* current-run slot and the pending set are cleared and no session stays open
C2_RejectedClosesOut ==
  \A r \in RunId :
    runs[r].pc = "rejected"
      => /\ currentRun = Undef
         /\ ~itemsToRun.def
         /\ \A h \in RunId : session[h].status # "active"

\* C3: at most one run session is created and not yet ended
C3_AtMostOneActive ==
  Cardinality({h \in RunId : session[h].status = "active"}) <= 1

\* the item was reported in the state
Reported(out, item, state) ==
  \E k \in 1..Len(out) : out[k].item = item /\ out[k].state = state

\* the suite was reported errored with the stack trace among its messages
ErroredWith(out, item, stackTrace) ==
  \E k \in 1..Len(out) :
    /\ out[k].item = item /\ out[k].state = "errored"
    /\ \E m \in 1..Len(out[k].msgs) : out[k].msgs[m].text = stackTrace

\* result i carries a stack trace, did not pass and, after updateTests, no item
\* of the tree has its id
Unmatched(suite, i) ==
  /\ suite.tests[i].hasTrace
  /\ suite.tests[i].state # "passed"
  /\ UpdateTests(items, roots, suite, TRUE).ok
  /\ Absent(UpdateTests(items, roots, suite, TRUE), suite.tests[i].id)

RolledUp(out, its, currentSuite, stackTrace) ==
  /\ ErroredWith(out, currentSuite, stackTrace)
  /\ \A c \in Range(its[currentSuite].children) : Reported(out, c, "skipped")

\* C8: while a run is active, a completed event for a known suite with a
\* result that carries a stack trace and matches no item of the tree reports
\* the suite errored with that stack trace and every child of the suite skipped
C8_SuiteRollup ==
  \A suite \in RunProgress : \A i \in 1..Len(suite.tests) :
    ( /\ currentRun # Undef
      /\ suite.state \in {"completed", "errored"}
      /\ SuiteOf(items, roots) # Undef
      /\ Unmatched(suite, i) )
      => RolledUp(Progress(items, roots, currentRun, RunState, suite).rs.out,
                  Progress(items, roots, currentRun, RunState, suite).items,
                  SuiteOf(items, roots), suite.tests[i].stackTrace)

\* the items below an item
Below(its, o) == Reach(its, Range(its[o].children))

Pending(rs) == IF rs.itemsToRun.def THEN Range(rs.itemsToRun.s) ELSE {}

\* d was reported in the state and is in the pending set as the item is
SetAsItem(rs, cr, item, state, d) ==
  /\ Reported(rs.out, d, state)
  /\ rs.session[cr].last[d] = state
  /\ (d \in Pending(rs)) = (item \in Pending(rs))
  /\ (d \in Pending(rs)) = (state = "enqueued" /\ rs.itemsToRun.def)

\* C9: while a run session is active, set(item, state) without noPassDown
\* reports the state on every item below the item and puts each of them in
\* the pending set, or takes it out, as it does the item
C9_PassDown ==
  \A item \in InTree(items, roots), state \in States :
    currentRun # Undef
      => \A d \in Below(items, item) :
           SetAsItem(Set(RunState, items, currentRun, item, state, <<>>, FALSE),
                     currentRun, item, state, d)

\* a run in which a suite, its child and the child of that child are enqueued
\* and pending by one set() on the suite
C9_Witness ==
  /\ currentRun # Undef
  /\ \E s \in Range(roots) : \E g \in Below(items, s) :
       /\ Parent(items, g) # s
       /\ \A d \in {s} \cup Below(items, s) :
            /\ session[currentRun].last[d] = "enqueued"
            /\ d \in Range(itemsToRun.s)
       /\ \A d \in Below(items, s) :
            SetAsItem(Set(RunState, items, currentRun, s, "started", <<>>, FALSE),
                      currentRun, s, "started", d)

\* the selection is an item with a file and a child of it without one
ParentAndChild(sel) ==
  /\ Len(sel) = 2
  /\ \E p, c \in Range(sel) :
       Parent(items, c) = p /\ items[p].uri # NoFile /\ items[c].uri = NoFile

ParentOf(sel) == CHOOSE p \in Range(sel) : \E c \in Range(sel) : Parent(items, c) = p

\* how often the item was reported enqueued
Enqueues(out, item) ==
  Cardinality({k \in 1..Len(out) : out[k].item = item /\ out[k].state = "enqueued"})

\* run() stopped at x, and the awaited command returns
Returned(x) == RunOn([x.fr EXCEPT !.i = @ + 1], x.rs, items, x.cr)

\* run() issued the one command, for p, enqueued p once and then completed
OnlyParent(x, p, debug) ==
  /\ x.fr.pc = "await"
  /\ x.fr.calls = <<SingleCommand(items, p, debug)>>
  /\ Enqueues(x.rs.out, p) = 1
  /\ Returned(x).fr.pc = "done"
  /\ Returned(x).fr.calls = x.fr.calls
  /\ Enqueues(Returned(x).rs.out, p) = 1

\* C10: a run request that selects an item with a file and a child of it
\* without a file issues one command, for the parent, and enqueues the parent
\* once
C10_SelectionDedup ==
  \A sel \in Selections, h \in RunId, debug \in BOOLEAN :
    (Idle /\ Sessions[h].status = "none" /\ ParentAndChild(sel))
      => OnlyParent(RunStart(items, roots, RunState, h, FALSE, sel, debug),
                    ParentOf(sel), debug)

\* a state in which a child without a file is selected before its parent
C10_Witness ==
  \E sel \in Selections, h \in RunId :
    /\ Idle /\ Sessions[h].status = "none" /\ ParentAndChild(sel)
    /\ sel[2] = ParentOf(sel)
    /\ OnlyParent(RunStart(items, roots, RunState, h, FALSE, sel, FALSE), ParentOf(sel), FALSE)

\* ------------------------------------------- properties of testProgress
\* the reports on the item, in order
ReportsOn(out, item) == SelectSeq(out, LAMBDA e : e.item = item)

\* no report follows a report of a terminal state on the same item
FinalWithin(out, item) ==
  \A k \in 1..Len(ReportsOn(out, item)) :
    ReportsOn(out, item)[k].state \in Terminal => k = Len(ReportsOn(out, item))

\* C11: once an item was reported in a terminal state in a run session, a
\* progress event reports no further state on it in that session: none on an
\* item whose last reported state is terminal, and none after a terminal
\* state the event itself reported
C11_TerminalFinal ==
  \A suite \in RunProgress : \A o \in Obj :
    currentRun # Undef
      => /\ session[currentRun].last[o] \in Terminal
              => ReportsOn(Progress(items, roots, currentRun, RunState, suite).rs.out, o) = <<>>
         /\ FinalWithin(Progress(items, roots, currentRun, RunState, suite).rs.out, o)

\* the suite the event names is in the tree with a range, or is not in the tree
RangedOrNew(its, rts) ==
  SuiteOf(its, rts) # Undef => its[SuiteOf(its, rts)].range # NoRange

\* C12: while a run is active, every result of a completed event that did not
\* pass, carries a stack trace and matches no item of the tree has its stack
\* trace among the messages of an errored report on its suite, also when the
\* suite was not in the tree before the event
C12_EvidenceKept ==
  \A suite \in RunProgress : \A i \in 1..Len(suite.tests) :
    ( /\ currentRun # Undef
      /\ suite.state \in {"completed", "errored"}
      /\ RangedOrNew(items, roots)
      /\ Unmatched(suite, i) )
      => ErroredWith(Progress(items, roots, currentRun, RunState, suite).rs.out,
                     SuiteOf(Progress(items, roots, currentRun, RunState, suite).items,
                             Progress(items, roots, currentRun, RunState, suite).roots),
                     suite.tests[i].stackTrace)

\* ------------------------------------------------ properties of cancellation
\* run() issued no further command and closed out: the items that were
\* pending are reported skipped, the session h is ended, the slots are cleared
ClosedOut(y, calls, pending, h) ==
  /\ y.fr.pc = "done"
  /\ y.fr.calls = calls
  /\ \A o \in pending : Reported(y.rs.out, o, "skipped")
  /\ y.rs.session[h].status = "ended"
  /\ y.cr = Undef
  /\ ~y.rs.itemsToRun.def

\* C13: a run-all request whose token was cancelled while a command is
\* awaited issues, when that command returns, no command for a remaining
\* workspace folder, reports every pending item skipped and ends the session;
\* it holds while run requests do not overlap
C13_CancelledRunAll ==
  \A r \in RunId :
    (runs[r].pc = "await" /\ runs[r].all /\ runs[r].cancelled)
      => ClosedOut(Returned([fr |-> runs[r], rs |-> RunState, cr |-> currentRun]),
                   runs[r].calls, Pending(RunState), currentRun)

\* ---------------------------------------------- properties of the sessions
\* C14: when every command returns, every session that run() created is
\* ended: once no run() awaits a command any more, no session is still
\* active and the current-run slot is cleared
C14_SessionsEnded ==
  (\A r \in RunId : runs[r].pc # "await")
    => /\ currentRun = Undef
       /\ \A h \in RunId : session[h].status # "active"

\* ------------------------------------------------ properties of discovery
\* the test ids of a snapshot; none when it has no test list
SnapshotIds(suite) ==
  IF suite.hasTests THEN {suite.tests[i].id : i \in 1..Len(suite.tests)} ELSE {}

\* the children of the suite are one item for each id of the snapshot
ExactlySnapshot(u, suite) ==
  /\ KidIds(u.items, u.roots) = SnapshotIds(suite)
  /\ Len(Kids(u.items, u.roots)) = Cardinality(SnapshotIds(suite))

\* C15: after updateTests in discovery mode the ids of the direct children of
\* the suite are exactly the test ids of the snapshot; tests the snapshot does
\* not name, or all tests when it has no test list, are dropped
C15_DiscoveryAuthoritative ==
  \A suite \in TreeLoaded :
    UpdateTests(items, roots, suite, FALSE).ok
      => ExactlySnapshot(UpdateTests(items, roots, suite, FALSE), suite)

\* a suite with a child that a snapshot does not name, where the snapshot
\* names a test the suite does not have; and a suite with children where the
\* snapshot has no test list
C15_Witness ==
  /\ \E suite \in TreeLoaded :
       /\ KidIds(items, roots) \ SnapshotIds(suite) # {}
       /\ SnapshotIds(suite) \ KidIds(items, roots) # {}
       /\ UpdateTests(items, roots, suite, FALSE).ok
       /\ ExactlySnapshot(UpdateTests(items, roots, suite, FALSE), suite)
  /\ \E suite \in TreeLoaded :
       /\ ~suite.hasTests
       /\ KeepsSuite(suite)
       /\ Kids(UpdateTests(items, roots, suite, FALSE).items,
               UpdateTests(items, roots, suite, FALSE).roots) = <<>>

\* ------------------------------------------------- properties of the ranges
\* results of a run whose suite and tests carry another range than the tree
TreeReranged ==
  {Suite(sf, 2, "completed", TRUE,
         [i \in 1..Len(ids) |-> Result(ids[i], f, 2, "passed", FALSE)]) :
     ids \in TreeLists, sf \in {NoFile, SuiteFile}, f \in {NoFile, SuiteFile}}

\* the child with the id has the same range before and after the call
SameRange(u, id) ==
  u.items[Kid(u.items, u.roots, id)].range = items[Kid(items, roots, id)].range

\* the snapshot names the test with another file than the item has
FileChanged(suite, id) ==
  \E i \in 1..Len(suite.tests) :
    suite.tests[i].id = id /\ suite.tests[i].file # items[Kid(items, roots, id)].uri

\* C16 as claimed: updateTests in during-run mode leaves the stored range of
\* the suite and of every test id that is a child of the suite before and
\* after the call unchanged
C16_RangesUnchanged ==
  \A suite \in TreeReranged :
    (SuiteOf(items, roots) # Undef /\ UpdateTests(items, roots, suite, TRUE).ok)
      => /\ UpdateTests(items, roots, suite, TRUE).items[
              SuiteOf(UpdateTests(items, roots, suite, TRUE).items,
                      UpdateTests(items, roots, suite, TRUE).roots)].range
              = items[SuiteOf(items, roots)].range
         /\ \A id \in KidIds(items, roots)
                        \cap KidIds(UpdateTests(items, roots, suite, TRUE).items,
                                    UpdateTests(items, roots, suite, TRUE).roots) :
              SameRange(UpdateTests(items, roots, suite, TRUE), id)

\* the ranges after the call u: a suite created anew for a changed file has
\* none; else the range of the suite is unchanged, and so is that of every
\* child that the snapshot does not name with another file, and no item has
\* the range of the snapshot
RangesKept(u, suite) ==
  IF ~KeepsSuite(suite)
  THEN u.items[SuiteOf(u.items, u.roots)].range = NoRange
  ELSE /\ u.items[SuiteOf(u.items, u.roots)].range = items[SuiteOf(items, roots)].range
       /\ \A id \in KidIds(items, roots) \cap KidIds(u.items, u.roots) :
            ~FileChanged(suite, id) => SameRange(u, id)
       /\ \A o \in InTree(u.items, u.roots) : u.items[o].range # AsRange(suite.range)

\* C16 amended: updateTests in during-run mode never stores a range of the
\* snapshot: the range of the suite and of every child of the suite is
\* unchanged unless the snapshot names it with another file than the stored
\* one, and a suite created anew for a changed file has no range
C16_RangesKeptUnlessRecreated ==
  \A suite \in TreeReranged :
    (SuiteOf(items, roots) # Undef /\ UpdateTests(items, roots, suite, TRUE).ok)
      => RangesKept(UpdateTests(items, roots, suite, TRUE), suite)

\* a suite and a child with ranges, named with their files and other ranges
C16_Witness ==
  \E suite \in TreeReranged : \E i \in 1..Len(suite.tests) :
    /\ KeepsSuite(suite)
    /\ items[SuiteOf(items, roots)].range \notin {NoRange, suite.range}
    /\ Kid(items, roots, suite.tests[i].id) # Undef
    /\ ~FileChanged(suite, suite.tests[i].id)
    /\ items[Kid(items, roots, suite.tests[i].id)].range \notin {NoRange, suite.tests[i].range}
    /\ UpdateTests(items, roots, suite, TRUE).ok
    /\ RangesKept(UpdateTests(items, roots, suite, TRUE), suite)

\* ------------------------------------------ properties of the reconciliation
\* a completed event whose result still has the state loaded, with a stack trace
LoadedProgress ==
  {Suite(SuiteFile, 1, "completed", TRUE, <<Result(IdA, SuiteFile, 1, "loaded", TRUE)>>)}

\* every result of the event has, after updateTests, an item of the tree
AllMatched(suite) ==
  /\ UpdateTests(items, roots, suite, TRUE).ok
  /\ \A i \in 1..Len(suite.tests) :
       ~Absent(UpdateTests(items, roots, suite, TRUE), suite.tests[i].id)

\* C17: a result that is matched to an item of the tree adds nothing to the
\* messages of the suite: a completed event all of whose results are matched
\* does not report the suite errored, whatever the states of the results
C17_MatchedNeverErrors ==
  \A suite \in RunProgress \cup LoadedProgress :
    ( /\ currentRun # Undef
      /\ suite.state \in {"completed", "errored"}
      /\ SuiteOf(items, roots) # Undef
      /\ AllMatched(suite) )
      => ~Reported(Progress(items, roots, currentRun, RunState, suite).rs.out,
                   SuiteOf(items, roots), "errored")

\* --------------------------------------------- properties of the selection
\* run() from x on when every awaited command returns and nothing else happens
RECURSIVE RunThrough(_)
RunThrough(x) == IF x.fr.pc = "await" THEN RunThrough(Returned(x)) ELSE x

\* no command was issued for the item and it was enqueued at most once, with
\* its parent
NotRunItself(y, c, debug) ==
  /\ SingleCommand(items, c, debug) \notin Range(y.fr.calls)
  /\ Enqueues(y.rs.out, c) <= 1

\* C18: when an item and its parent are both selected, run() issues no
\* command for the item and does not enqueue it apart from its parent,
\* whether or not the item has a file
C18_ChildOfSelectedParent ==
  \A sel \in Selections, h \in RunId, debug \in BOOLEAN :
    (Idle /\ Sessions[h].status = "none")
      => \A c \in Range(sel) :
           Parent(items, c) \in Range(sel)
             => NotRunItself(RunThrough(RunStart(items, roots, RunState, h, FALSE, sel, debug)),
                             c, debug)

\* C19: while one run session is active, the pending set holds exactly the
\* items whose last reported state in it is enqueued; while none is active,
\* the pending set and the current-run slot are unset
C19_PendingSet ==
  /\ (Cardinality({h \in RunId : session[h].status = "active"}) = 1)
       => /\ currentRun # Undef
          /\ session[currentRun].status = "active"
          /\ itemsToRun.def
          /\ Range(itemsToRun.s) = {o \in Obj : session[currentRun].last[o] = "enqueued"}
  /\ (\A h \in RunId : session[h].status # "active")
       => (currentRun = Undef /\ ~itemsToRun.def)

\* C20: during a run session every item of the pending set is an item of the
\* tree
C20_PendingInTree ==
  currentRun # Undef => Range(itemsToRun.s) \subseteq InTree(items, roots)

====
